---------------------------- MODULE Spec2Model ----------------------------
(***************************************************************************)
(* A model of src/parser.py: the numeric coercion as_int, the spreadsheet  *)
(* extractor SheetParser, the relational sink ReportTable and the          *)
(* module-level pipeline that connects them.                               *)
(*                                                                         *)
(* Python strings are sequences of one-character strings, so that the      *)
(* conversions of the program (str, lower, the regular expressions, int,   *)
(* strftime, the SQL literal) are computed character by character.         *)
(***************************************************************************)
EXTENDS Integers, Sequences, FiniteSets, TLC

VARIABLES
    aiArg,      \* as_int: the value it is applied to
    aiRet,      \* as_int: what it returned
    aiDone,     \* as_int: whether it has been applied
    sheet,      \* the worksheet of the input file (openpyxl)
    clock,      \* the calendar day, as datetime.date.today() reads it
    db,         \* the output file: whether the table exists, and its rows
    pc,         \* the pipeline's position
    run,        \* which run of the pipeline this is
    max_column, \* SheetParser.max_column
    gen,        \* the generator of SheetParser.iter: its frame
    row,        \* the record iter has yielded and append has not stored yet
    emitted,    \* history: every record yielded so far, with its data cell
    report,     \* the rows the final select produced
    raised,     \* the exception that ended the run, or "none"
    prev,       \* history: how the previous run ended
    appended,   \* history: the append calls made on the table, and how each ended
    lastQuery   \* the arguments of the select that produced report

aiVars == <<aiArg, aiRet, aiDone>>
stVars == <<appended, lastQuery>>
pipeVars == <<sheet, clock, db, pc, run, max_column, gen, row, emitted, report,
              raised, prev>>
vars == <<aiVars, pipeVars, stVars>>

---------------------------------------------------------------------------
(* Python values: None, an int, a str.                                     *)

NoneV == [k |-> "none", i |-> 0, s |-> <<>>]
IntV(n) == [k |-> "int", i |-> n, s |-> <<>>]
StrV(t) == [k |-> "str", i |-> 0, s |-> t]

Digits == <<"0", "1", "2", "3", "4", "5", "6", "7", "8", "9">>

IsDigit(c) == \E d \in 1..10 : Digits[d] = c

DigitVal(c) == (CHOOSE d \in 1..10 : Digits[d] = c) - 1

RECURSIVE NatStr(_)
NatStr(n) == IF n < 10 THEN <<Digits[n + 1]>>
             ELSE NatStr(n \div 10) \o <<Digits[(n % 10) + 1]>>

\* str(value)
Str(v) == CASE v.k = "none" -> <<"N", "o", "n", "e">>
            [] v.k = "int" -> IF v.i < 0 THEN <<"-">> \o NatStr(0 - v.i)
                              ELSE NatStr(v.i)
            [] OTHER -> v.s

\* re.sub(r'.*?(\d+)$', r'\1', s): "$" matches at the end of the string and
\* before a newline that ends it, "." matches no newline, the lazy prefix
\* starts as far left as the line of the digit run allows.
ReSubTrailingDigits(s) ==
    LET n == Len(s)
        e == IF n > 0 /\ s[n] = "\n" THEN n - 1 ELSE n
    IN  IF e = 0 \/ ~IsDigit(s[e]) THEN s
        ELSE LET rs == CHOOSE i \in 1..e :
                          /\ \A j \in i..e : IsDigit(s[j])
                          /\ (i = 1 \/ ~IsDigit(s[i - 1]))
                 nls == {j \in 1..(rs - 1) : s[j] = "\n"}
                 p == IF nls = {} THEN 1
                      ELSE (CHOOSE j \in nls : \A m \in nls : m <= j) + 1
             IN  SubSeq(s, 1, p - 1) \o SubSeq(s, rs, e) \o SubSeq(s, e + 1, n)

IsSpace(c) == c \in {" ", "\n"}

\* str.strip() as int() applies it to its argument
Strip(s) ==
    LET ix == {i \in 1..Len(s) : ~IsSpace(s[i])}
    IN  IF ix = {} THEN <<>>
        ELSE SubSeq(s, CHOOSE i \in ix : \A j \in ix : i <= j,
                       CHOOSE i \in ix : \A j \in ix : j <= i)

RECURSIVE DigitsValue(_)
DigitsValue(s) == IF s = <<>> THEN 0
                  ELSE DigitsValue(SubSeq(s, 1, Len(s) - 1)) * 10
                       + DigitVal(s[Len(s)])

\* int(s) of a str: surrounding whitespace, one optional sign, decimal digits
\* with single underscores between them; anything else is a ValueError.
PyInt(s) ==
    LET t == Strip(s)
        signed == t # <<>> /\ t[1] \in {"-", "+"}
        body == IF signed THEN SubSeq(t, 2, Len(t)) ELSE t
        wellFormed ==
            /\ body # <<>>
            /\ \A i \in 1..Len(body) : IsDigit(body[i]) \/ body[i] = "_"
            /\ IsDigit(body[1]) /\ IsDigit(body[Len(body)])
            /\ \A i \in 1..(Len(body) - 1) : ~(body[i] = "_" /\ body[i + 1] = "_")
        digs == SelectSeq(body, IsDigit)
    IN  IF ~wellFormed THEN [ok |-> FALSE, val |-> 0]
        ELSE [ok |-> TRUE,
              val |-> IF signed /\ t[1] = "-" THEN 0 - DigitsValue(digs)
                      ELSE DigitsValue(digs)]

as_int(value) ==
    LET r == PyInt(ReSubTrailingDigits(Str(value)))
    IN  IF r.ok THEN r.val ELSE 0

---------------------------------------------------------------------------
(* The worksheet, as openpyxl presents it: a grid of cells max_row by      *)
(* max_column, each holding None or a value, and the merged ranges.  Every *)
(* cell of a merged range but its anchor (the top-left one) holds None.    *)

ColLetters == <<"A", "B", "C", "D", "E", "F", "G", "H">>

\* cell.coordinate
Coordinate(r, c) == <<ColLetters[c]>> \o NatStr(r)

\* the column a coordinate's letter names (openpyxl's range_boundaries)
ColumnIndex(letter) == CHOOSE c \in 1..Len(ColLetters) : ColLetters[c] = letter

\* sheet.cell(r, c).value: a cell never written holds None
CellValue(sh, r, c) == IF <<r, c>> \in DOMAIN sh.val THEN sh.val[<<r, c>>] ELSE NoneV

UpperCase == <<"A", "B", "C", "D", "E", "F", "G", "H", "I", "J", "K", "L", "M",
               "N", "O", "P", "Q", "R", "S", "T", "U", "V", "W", "X", "Y", "Z">>
LowerCase == <<"a", "b", "c", "d", "e", "f", "g", "h", "i", "j", "k", "l", "m",
               "n", "o", "p", "q", "r", "s", "t", "u", "v", "w", "x", "y", "z">>

\* str.lower()
Lower(s) == [i \in 1..Len(s) |->
                IF \E u \in 1..26 : UpperCase[u] = s[i]
                THEN LowerCase[CHOOSE u \in 1..26 : UpperCase[u] = s[i]]
                ELSE s[i]]

is_merged(sh, r, c) ==
    \E m \in sh.merged : m.r1 <= r /\ r <= m.r2 /\ m.c1 <= c /\ c <= m.c2

get_cell_value(sh, r, c, default) ==
    IF CellValue(sh, r, c) = NoneV /\ is_merged(sh, r, c) THEN default
    ELSE StrV(Lower(Str(CellValue(sh, r, c))))

\* re.sub(r'^(\w+)\d+$', r'\1', coordinate): the greedy \w+ leaves the one
\* digit that \d+ needs, so the last character is dropped.
IsWordChar(ch) == \/ IsDigit(ch) \/ ch = "_"
                  \/ \E u \in 1..26 : UpperCase[u] = ch \/ LowerCase[u] = ch

ReSubColumn(coord) ==
    IF /\ Len(coord) >= 2
       /\ \A i \in 1..Len(coord) : IsWordChar(coord[i])
       /\ IsDigit(coord[Len(coord)])
    THEN SubSeq(coord, 1, Len(coord) - 1)
    ELSE coord

RECURSIVE ScanHeader(_, _, _)

\* ScanHeader as it would be if the loop stopped at every blank cell, merged
\* or not
ScanHeader_StopAtBlank(sh, i, acc) ==
    IF i >= sh.max_column THEN acc
    ELSE IF CellValue(sh, 1, i + 1) = NoneV THEN acc
    ELSE ScanHeader(sh, i + 1, StrV(ReSubColumn(Coordinate(1, i + 1))))

\* The loop of SheetParser.__init__ from index i on, acc being self.max_column
\* so far.
ScanHeader(sh, i, acc) ==
    IF i >= sh.max_column THEN acc
    ELSE IF CellValue(sh, 1, i + 1) = NoneV /\ ~is_merged(sh, 1, i + 1) THEN acc
    ELSE ScanHeader(sh, i + 1, StrV(ReSubColumn(Coordinate(1, i + 1))))

\* SheetParser.__init__: the value of self.max_column (None, or the letter)
SheetParserInit(sh) == ScanHeader(sh, 0, NoneV)

\* The defaults of SheetParser.iter
start_row == 4
type_row == 1
name_row == 2
date_row == 3
start_col == "C"
company_col == "B"

\* SheetParser.__coord
Coord(r, col) == col \o NatStr(r)

\* self.sheet[start:end], rows first: the cells of the rectangle between the
\* two coordinates, as <<row, column>> pairs.  A corner left of or above the
\* start gives no cell.
RowOf(coord) == DigitsValue(SubSeq(coord, 2, Len(coord)))
ColOf(coord) == ColumnIndex(coord[1])

RECURSIVE RangeCells(_, _, _, _, _, _)
RangeCells(r, c, r2, c1, c2, acc) ==
    IF r > r2 \/ c1 > c2 THEN acc
    ELSE IF c > c2 THEN RangeCells(r + 1, c1, r2, c1, c2, acc)
    ELSE RangeCells(r, c + 1, r2, c1, c2, Append(acc, <<r, c>>))

SheetSlice(start, end) ==
    RangeCells(RowOf(start), ColOf(start), RowOf(end), ColOf(start), ColOf(end), <<>>)

\* datetime.date.max.toordinal(): a later date is an OverflowError
MaxOrdinal == 3652059

\* One pass of the body of the loops of SheetParser.iter, for the data cell
\* at <<r, c>>: the carried headers after it, and the tuple it yields (date
\* as the day's ordinal).
IterCell(sh, today, carried, r, c) ==
    LET type == get_cell_value(sh, type_row, c, carried.type)
        name == get_cell_value(sh, name_row, c, carried.name)
        date == get_cell_value(sh, date_row, c, carried.date)
    IN  [carried |-> [type |-> type, name |-> name, date |-> date],
         overflow |-> today + as_int(date) > MaxOrdinal,
         rec |-> [type |-> type,
                  name |-> name,
                  date |-> today + as_int(date),
                  value |-> as_int(CellValue(sh, r, c)),
                  company_id |-> as_int(CellValue(sh, r, ColumnIndex(company_col)))]]

---------------------------------------------------------------------------
(* ReportTable: the table of the output file.  A stored row holds the text *)
(* of type, name and date and the integers value and company_id.           *)

DaysBeforeMonth == <<0, 31, 59, 90, 120, 151, 181, 212, 243, 273, 304, 334>>
DaysInMonth == <<31, 28, 31, 30, 31, 30, 31, 31, 30, 31, 30, 31>>

\* The year, month and day of a day's ordinal (day 1 is 0001-01-01).
Ord2Ymd(ordinal) ==
    LET n0 == ordinal - 1
        n400 == n0 \div 146097
        a == n0 % 146097
        n100 == a \div 36524
        b == a % 36524
        n4 == b \div 1461
        c == b % 1461
        n1 == c \div 365
        n == c % 365
        year == n400 * 400 + 1 + n100 * 100 + n4 * 4 + n1
        leap == n1 = 3 /\ (n4 # 24 \/ n100 = 3)
        m0 == (n + 50) \div 32
        before0 == DaysBeforeMonth[m0] + (IF m0 > 2 /\ leap THEN 1 ELSE 0)
        month == IF before0 > n THEN m0 - 1 ELSE m0
        before == IF before0 > n
                  THEN before0 - (DaysInMonth[month]
                                  + (IF month = 2 /\ leap THEN 1 ELSE 0))
                  ELSE before0
    IN  IF n1 = 4 \/ n100 = 4 THEN [y |-> year - 1, m |-> 12, d |-> 31]
        ELSE [y |-> year, m |-> month, d |-> n - before + 1]

Pad2(n) == IF n < 10 THEN <<"0">> \o NatStr(n) ELSE NatStr(n)

\* date.strftime("%Y-%m-%d"), of a date after the year 999
DateText(ordinal) ==
    LET ymd == Ord2Ymd(ordinal)
    IN  NatStr(ymd.y) \o <<"-">> \o Pad2(ymd.m) \o <<"-">> \o Pad2(ymd.d)

\* How SQL reads the text t that the INSERT statement puts between two
\* quotes, from position i on: two quotes in a row are one quote of the
\* literal; a single quote ends the literal early, or, as the last character,
\* joins the closing quote and leaves the literal open.  Both make the
\* statement a syntax error.
RECURSIVE SqlQuoted(_, _, _)
SqlQuoted(t, i, acc) ==
    IF i > Len(t) THEN [ok |-> TRUE, text |-> acc]
    ELSE IF t[i] # "'" THEN SqlQuoted(t, i + 1, Append(acc, t[i]))
    ELSE IF i < Len(t) /\ t[i + 1] = "'" THEN SqlQuoted(t, i + 2, Append(acc, "'"))
    ELSE [ok |-> FALSE, text |-> <<>>]

\* How SQL reads the integer that the INSERT statement spells out
SqlInteger(t) == IF t[1] = "-" THEN 0 - DigitsValue(SubSeq(t, 2, Len(t)))
                 ELSE DigitsValue(t)

\* ReportTable.append: the rows of the table after it, or a syntax error
\* (sqlite3.OperationalError) that leaves them as they were.
append(rows, type, name, date, value, company_id) ==
    LET t == SqlQuoted(Str(type), 1, <<>>)
        n == SqlQuoted(Str(name), 1, <<>>)
        d == SqlQuoted(DateText(date), 1, <<>>)
    IN  IF t.ok /\ n.ok /\ d.ok
        THEN [ok |-> TRUE,
              rows |-> Append(rows, [type |-> t.text,
                                     name |-> n.text,
                                     date |-> d.text,
                                     value |-> SqlInteger(Str(IntV(value))),
                                     company_id |-> SqlInteger(Str(IntV(company_id)))])]
        ELSE [ok |-> FALSE, rows |-> rows]

\* CreateTable as it would be without DROP TABLE: an existing table is kept
CreateTable_KeepRows(d) == [exists |-> TRUE, rows |-> d.rows]

\* ReportTable._create: DROP TABLE IF EXISTS, then CREATE TABLE IF NOT EXISTS
CreateTable(d) == [exists |-> TRUE, rows |-> <<>>]

\* A column of a stored row, as select hands it to Python
ColumnValue(r, col) ==
    CASE col = "type" -> StrV(r.type)
      [] col = "name" -> StrV(r.name)
      [] col = "date" -> StrV(r.date)
      [] col = "value" -> IntV(r.value)
      [] OTHER -> IntV(r.company_id)

\* The characters of the model in code-point order, for SQL's ordering of text
CodePoints == <<"\n", " ", "'", "+", "-", ".">> \o Digits \o UpperCase
              \o <<"_">> \o LowerCase

CharCode(ch) == CHOOSE i \in 1..Len(CodePoints) : CodePoints[i] = ch

RECURSIVE TextLess(_, _)
TextLess(x, y) ==
    IF y = <<>> THEN FALSE
    ELSE IF x = <<>> THEN TRUE
    ELSE IF x[1] # y[1] THEN CharCode(x[1]) < CharCode(y[1])
    ELSE TextLess(Tail(x), Tail(y))

\* SQL's order of two values of a column: integers by value, text by code point
ValueLess(x, y) == IF x.k = "int" THEN x.i < y.i ELSE TextLess(x.s, y.s)

RECURSIVE KeyLess(_, _)
KeyLess(x, y) ==
    IF x = <<>> THEN FALSE
    ELSE IF x[1] # y[1] THEN ValueLess(x[1], y[1])
    ELSE KeyLess(Tail(x), Tail(y))

RECURSIVE SumValues(_)
SumValues(rs) == IF rs = <<>> THEN 0 ELSE rs[1].value + SumValues(Tail(rs))

\* One output value of a query over the rows rs of a group (or of the whole
\* table).  SUM of no row is NULL; a bare column takes the value of a row of
\* the group (the same in all of them when the column is grouped by), NULL when
\* there is none.
FieldValue(f, rs) ==
    CASE f.expr = "sum" -> IF rs = <<>> THEN NoneV ELSE IntV(SumValues(rs))
      [] f.expr = "count" -> IntV(Len(rs))
      [] OTHER -> IF rs = <<>> THEN NoneV ELSE ColumnValue(rs[1], f.col)

\* dict(zip(names, row)): the output columns by name, the last of a name wins
OutputRow(fields, rs) ==
    [n \in {fields[i].as : i \in 1..Len(fields)} |->
        LET last == CHOOSE i \in 1..Len(fields) :
                        /\ fields[i].as = n
                        /\ \A j \in 1..Len(fields) : fields[j].as = n => j <= i
        IN  FieldValue(fields[last], rs)]

GroupKey(r, group_by) == [i \in 1..Len(group_by) |-> ColumnValue(r, group_by[i])]

RECURSIVE SortedKeys(_)
SortedKeys(keys) ==
    IF keys = {} THEN <<>>
    ELSE LET least == CHOOSE x \in keys : \A y \in keys : ~KeyLess(y, x)
         IN  <<least>> \o SortedKeys(keys \ {least})

IsAggregate(f) == f.expr \in {"sum", "count"}

\* select as it would be if a query over no row returned no row, grouped or not
select_NothingFromNothing(rows, fields, group_by) ==
    IF rows = <<>> THEN <<>>
    ELSE IF group_by # <<>>
    THEN LET keys == SortedKeys({GroupKey(rows[i], group_by) : i \in 1..Len(rows)})
             InGroup(k) == LET Has(r) == GroupKey(r, group_by) = k
                           IN  SelectSeq(rows, Has)
         IN  [i \in 1..Len(keys) |-> OutputRow(fields, InGroup(keys[i]))]
    ELSE IF \E i \in 1..Len(fields) : IsAggregate(fields[i])
    THEN <<OutputRow(fields, rows)>>
    ELSE [i \in 1..Len(rows) |-> OutputRow(fields, <<rows[i]>>)]

\* ReportTable.select, consumed to the end: the sequence of dicts it yields.
\* group_by is the sequence of grouped columns, <<>> for None.
select(rows, fields, group_by) ==
    IF group_by # <<>>
    THEN LET keys == SortedKeys({GroupKey(rows[i], group_by) : i \in 1..Len(rows)})
             InGroup(k) == LET Has(r) == GroupKey(r, group_by) = k
                           IN  SelectSeq(rows, Has)
         IN  [i \in 1..Len(keys) |-> OutputRow(fields, InGroup(keys[i]))]
    ELSE IF \E i \in 1..Len(fields) : IsAggregate(fields[i])
    THEN <<OutputRow(fields, rows)>>
    ELSE [i \in 1..Len(rows) |-> OutputRow(fields, <<rows[i]>>)]

Column(col) == [expr |-> "col", col |-> col, as |-> col]

\* The query of the pipeline
ReportFields == <<Column("date"),
                  [expr |-> "col", col |-> "name", as |-> "indicator"],
                  Column("type"),
                  [expr |-> "sum", col |-> "value", as |-> "total"]>>
ReportGroupBy == <<"date", "name", "type">>

---------------------------------------------------------------------------
(* The module-level pipeline, lines 141-155, one action per statement and  *)
(* one per resumption of the generator.                                    *)

NoHeaders == [type |-> NoneV, name |-> NoneV, date |-> NoneV]
NoFrame == [started |-> FALSE, cells |-> <<>>, k |-> 1, today |-> 0,
            carried |-> NoHeaders]
NoRow == [type |-> NoneV, name |-> NoneV, date |-> 0, value |-> 0, company_id |-> 0]

\* report = ReportTable(report)
OpenReport ==
    /\ pc = "start"
    /\ db' = CreateTable(db)
    /\ pc' = "parse"
    /\ UNCHANGED <<sheet, clock, run, max_column, gen, row, emitted, report,
                   raised, prev, aiVars, stVars>>

\* SheetParser(args.input): the generator that .iter() returns has not run yet
OpenSheet ==
    /\ pc = "parse"
    /\ max_column' = SheetParserInit(sheet)
    /\ gen' = NoFrame
    /\ pc' = "iter"
    /\ UNCHANGED <<sheet, clock, db, run, row, emitted, report, raised, prev,
                   aiVars, stVars>>

\* The frame of iter when its loops begin (lines 116-119); with max_column
\* None, __coord adds None and a str: a TypeError.
IterStart ==
    IF max_column = NoneV THEN [ok |-> FALSE, frame |-> NoFrame]
    ELSE [ok |-> TRUE,
          frame |-> [started |-> TRUE,
                     cells |-> SheetSlice(Coord(start_row, <<start_col>>),
                                          Coord(sheet.max_row, max_column.s)),
                     k |-> 1,
                     today |-> clock,
                     carried |-> NoHeaders]]

Raise(exception) ==
    /\ raised' = exception
    /\ pc' = "done"

\* The for statement of line 145 asks the generator for its next tuple: it
\* runs to its next yield, to its end, or to an exception.
IterNext ==
    /\ pc = "iter"
    /\ LET begun == IF gen.started THEN [ok |-> TRUE, frame |-> gen] ELSE IterStart
           g == begun.frame
       IN  IF ~begun.ok
           THEN /\ Raise("TypeError")
                /\ UNCHANGED <<gen, row, emitted>>
           ELSE IF g.k > Len(g.cells)
           THEN /\ gen' = g
                /\ pc' = "select"
                /\ UNCHANGED <<row, emitted, raised>>
           ELSE LET cell == g.cells[g.k]
                    step == IterCell(sheet, g.today, g.carried, cell[1], cell[2])
                IN  IF step.overflow
                    THEN /\ Raise("OverflowError")
                         /\ gen' = [g EXCEPT !.carried = step.carried]
                         /\ UNCHANGED <<row, emitted>>
                    ELSE /\ gen' = [g EXCEPT !.carried = step.carried, !.k = g.k + 1]
                         /\ row' = step.rec
                         /\ emitted' = Append(emitted, [r |-> cell[1], c |-> cell[2],
                                                        rec |-> step.rec])
                         /\ pc' = "append"
                         /\ UNCHANGED raised
    /\ UNCHANGED <<sheet, clock, db, run, max_column, report, prev, aiVars, stVars>>

\* report.append(*row)
StoreRow ==
    /\ pc = "append"
    /\ LET res == append(db.rows, row.type, row.name, row.date, row.value,
                         row.company_id)
       IN  IF res.ok
           THEN /\ db' = [db EXCEPT !.rows = res.rows]
                /\ pc' = "iter"
                /\ UNCHANGED raised
           ELSE /\ Raise("OperationalError")
                /\ UNCHANGED db
    /\ UNCHANGED <<sheet, clock, run, max_column, gen, row, emitted, report, prev,
                   aiVars, stVars>>

\* report.select(...) of lines 147-150, consumed by the loop of lines 154-155
PrintReport ==
    /\ pc = "select"
    /\ report' = select(db.rows, ReportFields, ReportGroupBy)
    /\ pc' = "done"
    /\ UNCHANGED <<sheet, clock, db, run, max_column, gen, row, emitted, raised,
                   prev, aiVars, stVars>>

\* The program is run again on the same input and output files, the same day
\* or the day after.
RunAgain ==
    /\ pc = "done"
    /\ run = "first"
    /\ run' = "second"
    /\ prev' = [ran |-> TRUE, raised |-> raised, report |-> report,
                rows |-> db.rows, today |-> clock]
    /\ clock' \in {clock, clock + 1}
    /\ pc' = "start"
    /\ max_column' = NoneV
    /\ gen' = NoFrame
    /\ row' = NoRow
    /\ emitted' = <<>>
    /\ report' = <<>>
    /\ raised' = "none"
    /\ UNCHANGED <<sheet, db, aiVars, stVars>>

---------------------------------------------------------------------------
(* The worksheets the pipeline is run on.                                  *)

NCols == 4
MaxDataRows == 2
FirstDay == 739922

Range(r1, c1, r2, c2) == [r1 |-> r1, c1 |-> c1, r2 |-> r2, c2 |-> c2]

Covers(m, r, c) == m.r1 <= r /\ r <= m.r2 /\ m.c1 <= c /\ c <= m.c2

Disjoint(m, n) == m.r2 < n.r1 \/ n.r2 < m.r1 \/ m.c2 < n.c1 \/ n.c2 < m.c1

\* A worksheet of the given size with the merged ranges and the cell contents
\* given: as openpyxl loads it, only the anchor of a merged range keeps its
\* content.
MkSheet(rows, cols, merged, content) ==
    [max_row |-> rows,
     max_column |-> cols,
     merged |-> merged,
     val |-> [p \in (1..rows) \X (1..cols) |->
                IF \E m \in merged : Covers(m, p[1], p[2]) /\ <<m.r1, m.c1>> # p
                THEN NoneV
                ELSE IF p \in DOMAIN content THEN content[p] ELSE NoneV]]

DataCols == 3..NCols

TypeCell(c) == StrV(<<"T", ColLetters[c]>>)
NameCell(c) == StrV(<<"N", "m", ColLetters[c]>>)
QuotedNameCell(c) == StrV(<<"N", "'", ColLetters[c]>>)
DateCell(c) == StrV(<<"D", Digits[c + 1]>>)
CalendarDateCell(c) == IntV(20240100 + c)

\* Rows 2 and 3: the layouts of the name and date headers
HeaderLayouts ==
    { [name |-> [c \in 2..NCols |-> NameCell(c)],
       date |-> [c \in 2..NCols |-> DateCell(c)],
       merged |-> {}],
      [name |-> [c \in 2..NCols |-> NameCell(c)],
       date |-> [c \in 2..NCols |-> DateCell(c)],
       merged |-> {Range(2, 3, 2, NCols)}],
      [name |-> [c \in 2..NCols |-> NoneV],
       date |-> [c \in 2..NCols |-> NoneV],
       merged |-> {}],
      [name |-> [c \in 2..NCols |-> NameCell(c)],
       date |-> [c \in 2..NCols |-> DateCell(c)],
       merged |-> {Range(2, 2, 2, 3), Range(3, 3, 3, NCols)}],
      [name |-> [c \in 2..NCols |-> QuotedNameCell(c)],
       date |-> [c \in 2..NCols |-> DateCell(c)],
       merged |-> {}],
      [name |-> [c \in 2..NCols |-> NameCell(c)],
       date |-> [c \in 2..NCols |-> CalendarDateCell(c)],
       merged |-> {}] }

\* Row 1: at most one merged range, one row high anywhere or two rows high
\* over the data columns, its anchor holding a label
TypeRanges ==
    {Range(1, c1, 1, c2) : c1 \in 1..NCols, c2 \in 1..NCols}
    \cup {Range(1, c1, 2, c2) : c1 \in DataCols, c2 \in DataCols}

TypeMerges == {{}} \cup {{m} : m \in {n \in TypeRanges : n.c1 < n.c2}}

\* The data rows: integers throughout, or text that is not a number, a blank
\* company cell and a merged pair of data cells
DataLayouts ==
    { [data |-> [p \in (4..(3 + MaxDataRows)) \X DataCols |-> IntV(100 * p[2] + p[1])],
       company |-> [r \in 4..(3 + MaxDataRows) |-> IntV(r + 3)],
       merged |-> {}],
      [data |-> [p \in (4..(3 + MaxDataRows)) \X DataCols |->
                    IF (p[1] + p[2]) % 2 = 1 THEN StrV(<<"x">>)
                    ELSE StrV(<<"-", "5", " ">>)],
       company |-> [r \in 4..(3 + MaxDataRows) |->
                      IF r = 4 THEN NoneV ELSE StrV(<<"c", "o", Digits[r + 1]>>)],
       merged |-> {Range(4, 3, 4, 4)}] }

Content(blank1, h, d) ==
    [p \in (1..(3 + MaxDataRows)) \X (1..NCols) |->
        CASE p[1] = 1 -> IF p[2] \in blank1 THEN NoneV ELSE TypeCell(p[2])
          [] p[1] = 2 -> IF p[2] >= 2 THEN h.name[p[2]] ELSE NoneV
          [] p[1] = 3 -> IF p[2] >= 2 THEN h.date[p[2]] ELSE NoneV
          [] OTHER -> IF p[2] >= 3 THEN d.data[p]
                      ELSE IF p[2] = 2 THEN d.company[p[1]] ELSE NoneV]

SheetsLaidOut(h) ==
    { MkSheet(rows, NCols,
              tm \cup h.merged \cup {m \in d.merged : m.r2 <= rows},
              Content(blank1 \ {m.c1 : m \in tm}, h, d)) :
        rows \in 3..(3 + MaxDataRows), blank1 \in SUBSET (1..NCols),
        tm \in {t \in TypeMerges : \A m \in t : \A n \in h.merged : Disjoint(m, n)},
        d \in DataLayouts }

Sheets == UNION {SheetsLaidOut(h) : h \in HeaderLayouts}

\* What the output file may hold before the first run
StaleRow == [type |-> <<"o", "l", "d">>, name |-> <<"o", "l", "d">>,
             date |-> DateText(FirstDay), value |-> 1, company_id |-> 1]

PipeInit ==
    /\ sheet \in Sheets
    /\ clock = FirstDay
    /\ db \in {[exists |-> FALSE, rows |-> <<>>],
               [exists |-> TRUE, rows |-> <<StaleRow>>]}
    /\ pc = "start"
    /\ run = "first"
    /\ max_column = NoneV
    /\ gen = NoFrame
    /\ row = NoRow
    /\ emitted = <<>>
    /\ report = <<>>
    /\ raised = "none"
    /\ prev = [ran |-> FALSE, raised |-> "none", report |-> <<>>, rows |-> <<>>,
               today |-> 0]

AsIntIdle == aiArg = NoneV /\ aiRet = 0 /\ aiDone = FALSE

NoQuery == [fresh |-> FALSE, fields |-> <<>>, group_by |-> <<>>]

StoreIdle == appended = <<>> /\ lastQuery = NoQuery

Init == PipeInit /\ AsIntIdle /\ StoreIdle

Next == \/ OpenReport
        \/ OpenSheet
        \/ IterNext
        \/ StoreRow
        \/ PrintReport
        \/ RunAgain

Spec == Init /\ [][Next]_vars

---------------------------------------------------------------------------
(* The values as_int is applied to.                                        *)

MaxLen == 3
MaxInt == 12

AsIntChars == {"a", "-", " ", "\n", "_", "5", "1"}

RECURSIVE StringsUpTo(_, _)
StringsUpTo(chars, n) ==
    IF n = 0 THEN {<<>>}
    ELSE LET shorter == StringsUpTo(chars, n - 1)
         IN  shorter \cup {Append(t, c) : t \in shorter, c \in chars}

AsIntExamples == {StrV(<<"a", "b", "c", "1", "2", "3">>), StrV(<<"a", "b", "c">>),
                  StrV(<<"1", ".", "5">>)}

AsIntInputs ==
    {NoneV} \cup {IntV(n) : n \in (0 - MaxInt)..MaxInt}
            \cup {StrV(t) : t \in StringsUpTo(AsIntChars, MaxLen)}
            \cup AsIntExamples

AsIntInit == /\ aiArg \in AsIntInputs
             /\ aiRet = 0
             /\ aiDone = FALSE

CallAsInt == /\ ~aiDone
             /\ aiRet' = as_int(aiArg)
             /\ aiDone' = TRUE
             /\ UNCHANGED <<aiArg, pipeVars, stVars>>

\* The pipeline is not run
PipeIdle ==
    /\ sheet = MkSheet(0, 0, {}, <<>>)
    /\ clock = FirstDay
    /\ db = [exists |-> FALSE, rows |-> <<>>]
    /\ pc = "idle"
    /\ run = "first"
    /\ max_column = NoneV
    /\ gen = NoFrame
    /\ row = NoRow
    /\ emitted = <<>>
    /\ report = <<>>
    /\ raised = "none"
    /\ prev = [ran |-> FALSE, raised |-> "none", report |-> <<>>, rows |-> <<>>,
               today |-> 0]

InitAsInt == AsIntInit /\ PipeIdle /\ StoreIdle

SpecAsInt == InitAsInt /\ [][CallAsInt]_vars

---------------------------------------------------------------------------
(* The end-to-end scenario: four rows, "revenue" merged across C1:D1,      *)
(* "sales" in row 2, "10" in row 3, "100" and "200" in C4 and D4, "7" in   *)
(* B4.  What the scenario leaves open is drawn: whether A1 and B1 hold a   *)
(* label, and whether "sales" and "10" stand in both columns or in a range *)
(* merged across them.                                                     *)

Text7 == StrV(<<"7">>)
Text10 == StrV(<<"1", "0">>)
Text100 == StrV(<<"1", "0", "0">>)
Text200 == StrV(<<"2", "0", "0">>)
Revenue == StrV(<<"r", "e", "v", "e", "n", "u", "e">>)
Sales == StrV(<<"s", "a", "l", "e", "s">>)

ScenarioSheets ==
    { MkSheet(4, 4,
              {Range(1, 3, 1, 4)}
                 \cup (IF nameMerged THEN {Range(2, 3, 2, 4)} ELSE {})
                 \cup (IF dateMerged THEN {Range(3, 3, 3, 4)} ELSE {}),
              [p \in (1..4) \X (1..4) |->
                 CASE p = <<1, 1>> -> a1
                   [] p = <<1, 2>> -> b1
                   [] p = <<1, 3>> -> Revenue
                   [] p[1] = 2 /\ p[2] >= 3 -> Sales
                   [] p[1] = 3 /\ p[2] >= 3 -> Text10
                   [] p = <<4, 2>> -> Text7
                   [] p = <<4, 3>> -> Text100
                   [] p = <<4, 4>> -> Text200
                   [] OTHER -> NoneV]) :
        a1 \in {NoneV, StrV(<<"I", "d">>)},
        b1 \in {NoneV, StrV(<<"C", "o">>)},
        nameMerged \in BOOLEAN, dateMerged \in BOOLEAN }

ScenarioInit ==
    /\ sheet \in ScenarioSheets
    /\ clock = FirstDay
    /\ db \in {[exists |-> FALSE, rows |-> <<>>],
               [exists |-> TRUE, rows |-> <<StaleRow>>]}
    /\ pc = "start"
    /\ run = "first"
    /\ max_column = NoneV
    /\ gen = NoFrame
    /\ row = NoRow
    /\ emitted = <<>>
    /\ report = <<>>
    /\ raised = "none"
    /\ prev = [ran |-> FALSE, raised |-> "none", report |-> <<>>, rows |-> <<>>,
               today |-> 0]

InitE2E == ScenarioInit /\ AsIntIdle /\ StoreIdle

SpecE2E == InitE2E /\ [][Next]_vars

---------------------------------------------------------------------------
(* ReportTable on its own: constructed on a file, then append and select   *)
(* called in any order.                                                    *)

MaxAppends == 2

StoreTypes == {StrV(<<"a">>), StrV(<<"o", "'", "k">>), StrV(<<"'", "'">>)}
StoreValues == {0 - 5, 7}

StoreRecords ==
    { [type |-> t, name |-> StrV(<<"n">>), date |-> FirstDay, value |-> v,
       company_id |-> 1] : t \in StoreTypes, v \in StoreValues }

PlainFields == <<Column("type"), Column("name"), Column("date"), Column("value"),
                 Column("company_id")>>

StoreQueries ==
    { [fields |-> PlainFields, group_by |-> <<>>],
      [fields |-> ReportFields, group_by |-> ReportGroupBy],
      [fields |-> <<[expr |-> "sum", col |-> "value", as |-> "total"]>>,
       group_by |-> <<>>],
      [fields |-> <<[expr |-> "count", col |-> "", as |-> "COUNT(*)"]>>,
       group_by |-> <<>>],
      [fields |-> <<Column("type")>>, group_by |-> <<"type">>] }

\* ReportTable(filename)
StoreOpen ==
    /\ pc = "closed"
    /\ db' = CreateTable(db)
    /\ pc' = "open"
    /\ UNCHANGED <<sheet, clock, run, max_column, gen, row, emitted, report,
                   raised, prev, aiVars, stVars>>

\* ReportTable.append(type, name, date, value, company_id)
StoreAppend ==
    /\ pc = "open"
    /\ Len(appended) < MaxAppends
    /\ \E rec \in StoreRecords :
          LET res == append(db.rows, rec.type, rec.name, rec.date, rec.value,
                            rec.company_id)
          IN  /\ db' = [db EXCEPT !.rows = res.rows]
              /\ appended' = Append(appended, [rec |-> rec, ok |-> res.ok,
                                               before |-> Len(db.rows),
                                               after |-> Len(res.rows)])
    /\ lastQuery' = [lastQuery EXCEPT !.fresh = FALSE]
    /\ UNCHANGED <<sheet, clock, pc, run, max_column, gen, row, emitted, report,
                   raised, prev, aiVars>>

\* ReportTable.select(*fields, group_by=...), consumed to its end
StoreSelect ==
    /\ pc = "open"
    /\ \E q \in StoreQueries :
          /\ report' = select(db.rows, q.fields, q.group_by)
          /\ lastQuery' = [fresh |-> TRUE, fields |-> q.fields,
                           group_by |-> q.group_by]
    /\ UNCHANGED <<sheet, clock, db, pc, run, max_column, gen, row, emitted,
                   raised, prev, aiVars, appended>>

StoreInit ==
    /\ sheet = MkSheet(0, 0, {}, <<>>)
    /\ clock = FirstDay
    /\ db \in {[exists |-> FALSE, rows |-> <<>>],
               [exists |-> TRUE, rows |-> <<StaleRow>>]}
    /\ pc = "closed"
    /\ run = "first"
    /\ max_column = NoneV
    /\ gen = NoFrame
    /\ row = NoRow
    /\ emitted = <<>>
    /\ report = <<>>
    /\ raised = "none"
    /\ prev = [ran |-> FALSE, raised |-> "none", report |-> <<>>, rows |-> <<>>,
               today |-> 0]

StoreNext == StoreOpen \/ StoreAppend \/ StoreSelect

InitStore == StoreInit /\ AsIntIdle /\ StoreIdle

SpecStore == InitStore /\ [][StoreNext]_vars
---------------------------------------------------------------------------
(* Properties of SheetParser.                                              *)

Constructed == pc \in {"iter", "append", "select", "done"}

BlankUnmerged(c) == CellValue(sheet, 1, c) = NoneV /\ ~is_merged(sheet, 1, c)

\* The header role of a record, as text: the date role by its offset in days
RoleOf(e, h) == CASE h = type_row -> e.rec.type
                  [] h = name_row -> e.rec.name
                  [] OTHER -> IntV(e.rec.date - gen.today)

\* C1: two records emitted from data cells of the same column carry the same
\* type, the same name and the same date offset.
C1_HeadersDependOnlyOnColumn ==
    \A i, j \in 1..Len(emitted) :
        emitted[i].c = emitted[j].c =>
            /\ emitted[i].rec.type = emitted[j].rec.type
            /\ emitted[i].rec.name = emitted[j].rec.name
            /\ emitted[i].rec.date = emitted[j].rec.date

\* C2: a record emitted from a column inside a merged range of a header row
\* carries, for that row's role, the lowercased value of the range's anchor
\* cell, whenever the anchor is not blank.
C2_MergedSpanTakesAnchorValue ==
    \A i \in 1..Len(emitted) : \A m \in sheet.merged : \A h \in {type_row, name_row, date_row} :
        LET e == emitted[i]
            anchor == CellValue(sheet, m.r1, m.c1)
            text == StrV(Lower(Str(anchor)))
        IN  (m.r1 <= h /\ h <= m.r2 /\ m.c1 < m.c2 /\ m.c1 <= e.c /\ e.c <= m.c2
               /\ anchor # NoneV)
            => RoleOf(e, h) = IF h = date_row THEN IntV(as_int(text)) ELSE text

\* C3: once the parser is constructed, consuming iter() never raises.
C3_IterNeverRaises == raised \notin {"TypeError", "OverflowError"}

\* C10: every emitted record has a str as type and a str as name, never None.
C10_TypeAndNameNeverNone ==
    \A i \in 1..Len(emitted) :
        emitted[i].rec.type.k = "str" /\ emitted[i].rec.name.k = "str"

\* The general part of C8: max_column names the last column of the unbroken
\* run of row-1 cells, from column A, that are non-blank or merged, and no
\* record comes from a column to its right.
MaxColumnEndsHeaderRun ==
    Constructed /\ max_column # NoneV =>
        LET last == ColumnIndex(max_column.s[1])
        IN  /\ Len(max_column.s) = 1
            /\ \A c \in 1..last : ~BlankUnmerged(c)
            /\ last = sheet.max_column \/ BlankUnmerged(last + 1)
            /\ \A i \in 1..Len(emitted) : emitted[i].c <= last

\* C8 as amended: the general part; max_column is None exactly when A1 is
\* blank and unmerged, and then no record is emitted at all; and when the
\* first blank, unmerged cell of row 1 is D1, max_column is C.
C8_MaxColumnIsLastHeaderColumn ==
    /\ MaxColumnEndsHeaderRun
    /\ Constructed => (max_column = NoneV <=> BlankUnmerged(1))
    /\ Constructed /\ max_column = NoneV => emitted = <<>>
    /\ (Constructed /\ BlankUnmerged(4) /\ \A c \in 1..3 : ~BlankUnmerged(c))
         => max_column = StrV(<<"C">>)

\* C8 as stated: the general part, and max_column is C whenever D1 is blank
\* and unmerged.
C8_BlankDGivesC ==
    /\ MaxColumnEndsHeaderRun
    /\ Constructed /\ BlankUnmerged(4) => max_column = StrV(<<"C">>)

C8_Witness ==
    /\ pc = "done" /\ raised = "none"
    /\ BlankUnmerged(4) /\ max_column = StrV(<<"C">>)
    /\ \E c \in 1..3 : is_merged(sheet, 1, c)
    /\ emitted # <<>>

---------------------------------------------------------------------------
(* Properties of the pipeline run twice.                                   *)

WithoutDate(r) == [indicator |-> r["indicator"], type |-> r["type"],
                   total |-> r["total"]]

\* C9 as amended: the table is empty right after ReportTable is constructed,
\* whatever the file held; a second run on the same day ends as the first did,
\* with the same rows in the table and the same report; a second run on a
\* later day that completes after a first that completed reports the same
\* groups and totals, the dates alone differing.
C9_SecondRunRepeatsFirst ==
    /\ pc = "parse" => db = [exists |-> TRUE, rows |-> <<>>]
    /\ (run = "second" /\ pc = "done" /\ clock = prev.today)
         => raised = prev.raised /\ report = prev.report /\ db.rows = prev.rows
    /\ (run = "second" /\ pc = "done" /\ raised = "none" /\ prev.raised = "none")
         => /\ Len(report) = Len(prev.report)
            /\ Len(db.rows) = Len(prev.rows)
            /\ \A i \in 1..Len(report) :
                  WithoutDate(report[i]) = WithoutDate(prev.report[i])

\* C9 as stated: the second run produces the result rows of the first.
C9_SameRowsBothRuns ==
    (run = "second" /\ pc = "done") => report = prev.report

C9_Witness ==
    /\ run = "second" /\ pc = "done" /\ raised = "none"
    /\ clock = prev.today
    /\ Len(report) >= 2
    /\ report = prev.report

\* C4: in the scenario the first run emits ("revenue", "sales", today + 10,
\* 100, 7) and then ("revenue", "sales", today + 10, 200, 7), and the grouped
\* sum is one row with total 300.
C4_ScenarioTwoRecordsTotal300 ==
    (run = "first" /\ pc = "done") =>
        /\ raised = "none"
        /\ Len(emitted) = 2
        /\ emitted[1].rec = [type |-> Revenue, name |-> Sales, date |-> clock + 10,
                             value |-> 100, company_id |-> 7]
        /\ emitted[2].rec = [type |-> Revenue, name |-> Sales, date |-> clock + 10,
                             value |-> 200, company_id |-> 7]
        /\ Len(report) = 1
        /\ report[1]["total"] = IntV(300)

---------------------------------------------------------------------------
(* Properties of as_int.                                                   *)

\* The number that the trailing run of decimal digits of s denotes, 0 when s
\* does not end in a digit
RECURSIVE TrailingDigits(_)
TrailingDigits(s) ==
    IF s = <<>> \/ ~IsDigit(s[Len(s)]) THEN <<>>
    ELSE Append(TrailingDigits(SubSeq(s, 1, Len(s) - 1)), s[Len(s)])

\* C5: as_int returns the integer that the trailing run of decimal digits of
\* str(value) denotes, 0 when there is none, and never a negative number.
C5_AsIntTrailingDigits ==
    aiDone => /\ aiRet = DigitsValue(TrailingDigits(Str(aiArg)))
              /\ aiRet >= 0

---------------------------------------------------------------------------
(* Properties of ReportTable.                                              *)

\* How select without group_by returns an appended record
Returned(rec) ==
    [n \in {"type", "name", "date", "value", "company_id"} |->
        CASE n = "type" -> rec.type
          [] n = "name" -> rec.name
          [] n = "date" -> StrV(DateText(rec.date))
          [] n = "value" -> IntV(rec.value)
          [] OTHER -> IntV(rec.company_id)]

Count(seq, x) == Cardinality({i \in 1..Len(seq) : seq[i] = x})

\* C6: every append succeeds and adds one row, and select of the five columns
\* without group_by returns the appended records, as many times each as it
\* was appended.
C6_RoundTrip ==
    /\ \A i \in 1..Len(appended) :
          appended[i].ok /\ appended[i].after = appended[i].before + 1
    /\ (lastQuery.fresh /\ lastQuery.fields = PlainFields /\ lastQuery.group_by = <<>>)
         => /\ Len(report) = Len(appended)
            /\ \A i \in 1..Len(appended) :
                  Count(report, Returned(appended[i].rec))
                     = Cardinality({j \in 1..Len(appended) :
                                       appended[j].rec = appended[i].rec})

AggregatesOnly == /\ lastQuery.group_by = <<>>
                  /\ \E i \in 1..Len(lastQuery.fields) : IsAggregate(lastQuery.fields[i])

\* C7 as amended: on the empty table select returns no row, except that a
\* field list with an aggregate and no group_by returns exactly one row; on a
\* populated table it returns at least one row.
C7_SelectOnEmptyAndPopulated ==
    (pc = "open" /\ lastQuery.fresh) =>
        /\ db.rows = <<>> /\ ~AggregatesOnly => Len(report) = 0
        /\ db.rows = <<>> /\ AggregatesOnly => Len(report) = 1
        /\ db.rows # <<>> => Len(report) >= 1

\* C7 as stated: on the empty table select returns no row for every field
\* list; on a populated table at least one.
C7_SelectOnEmptyReturnsNothing ==
    (pc = "open" /\ lastQuery.fresh) =>
        /\ db.rows = <<>> => Len(report) = 0
        /\ db.rows # <<>> => Len(report) >= 1

C7_Witness ==
    /\ pc = "open" /\ lastQuery.fresh /\ db.rows = <<>>
    /\ AggregatesOnly
    /\ Len(report) = 1

=============================================================================
